---- MODULE Spec2Model ----
(***************************************************************************)
(* fastui-admin: BaseAdmin (construction, add_view, mount, route table),    *)
(* BaseModelView (route synthesis from permission flags, CRUD endpoints)    *)
(* and the request dispatch of the mounted admin sub-application.           *)
(*                                                                          *)
(* A URL path is the sequence of its segments after the leading "/", so    *)
(* that a trailing "/" shows as a last empty segment: "/users/" is          *)
(* <<"users", "">> and "/" is <<"">>.  Where the code works on the          *)
(* characters of a string (slugify, lower, replace, the int path            *)
(* convertor) the model works on Chars[s], the string's characters.         *)
(***************************************************************************)
EXTENDS Integers, Sequences, FiniteSets, TLC

VARIABLES
    declared,       \* the view classes the application declares
    admin_exists,   \* a BaseAdmin object has been constructed
    session_maker,  \* BaseAdmin.session_maker
    views,          \* BaseAdmin._views
    model_views,    \* BaseAdmin._model_views
    mounted,        \* BaseAdmin._mounted
    app_routes,     \* the application's mounts (app.routes entries added by mount)
    db,             \* the database: table name -> (primary key -> row)
    last            \* the call or request in progress and its outcome

vars == <<declared, admin_exists, session_maker, views, model_views, mounted, app_routes, db, last>>

(***************************************************************************)
(* Bounds of the model.                                                     *)
(***************************************************************************)
\* add_view calls that register a view
MaxViews == 2
\* largest primary key the database hands out
MaxPk == 2

(***************************************************************************)
(* Text.                                                                    *)
(***************************************************************************)
\* the characters of the strings of the model
Chars ==
    ("users" :> <<"u", "s", "e", "r", "s">>) @@
    ("products" :> <<"p", "r", "o", "d", "u", "c", "t", "s">>) @@
    ("Users" :> <<"U", "s", "e", "r", "s">>) @@
    ("User" :> <<"U", "s", "e", "r">>) @@
    ("Product" :> <<"P", "r", "o", "d", "u", "c", "t">>) @@
    ("ReadOnlyUsers" :> <<"R", "e", "a", "d", "O", "n", "l", "y", "U", "s", "e", "r", "s">>) @@
    ("Products" :> <<"P", "r", "o", "d", "u", "c", "t", "s">>) @@
    ("Custom" :> <<"C", "u", "s", "t", "o", "m">>) @@
    ("custom" :> <<"c", "u", "s", "t", "o", "m">>) @@
    ("Hidden" :> <<"H", "i", "d", "d", "e", "n">>) @@
    ("My View!" :> <<"M", "y", " ", "V", "i", "e", "w", "!">>) @@
    ("my-view!" :> <<"m", "y", "-", "v", "i", "e", "w", "!">>) @@
    ("my-view" :> <<"m", "y", "-", "v", "i", "e", "w">>) @@
    ("Audit Logs" :> <<"A", "u", "d", "i", "t", " ", "L", "o", "g", "s">>) @@
    ("audit-logs" :> <<"a", "u", "d", "i", "t", "-", "l", "o", "g", "s">>) @@
    ("hidden" :> <<"h", "i", "d", "d", "e", "n">>) @@
    ("Dashboard" :> <<"D", "a", "s", "h", "b", "o", "a", "r", "d">>) @@
    ("dashboard" :> <<"d", "a", "s", "h", "b", "o", "a", "r", "d">>) @@
    ("readonlyusers" :> <<"r", "e", "a", "d", "o", "n", "l", "y", "u", "s", "e", "r", "s">>) @@
    ("api" :> <<"a", "p", "i">>) @@
    ("create" :> <<"c", "r", "e", "a", "t", "e">>) @@
    ("edit" :> <<"e", "d", "i", "t">>) @@
    ("delete" :> <<"d", "e", "l", "e", "t", "e">>) @@
    ("admin" :> <<"a", "d", "m", "i", "n">>) @@
    ("some" :> <<"s", "o", "m", "e">>) @@
    ("random" :> <<"r", "a", "n", "d", "o", "m">>) @@
    ("path" :> <<"p", "a", "t", "h">>) @@
    ("" :> <<>>) @@
    ("abc" :> <<"a", "b", "c">>) @@
    ("1.5" :> <<"1", ".", "5">>) @@
    ("-1" :> <<"-", "1">>) @@
    ("+2" :> <<"+", "2">>) @@
    ("0" :> <<"0">>) @@
    ("1" :> <<"1">>) @@
    ("2" :> <<"2">>) @@
    ("3" :> <<"3">>) @@
    ("4" :> <<"4">>) @@
    ("5" :> <<"5">>) @@
    ("6" :> <<"6">>) @@
    ("7" :> <<"7">>) @@
    ("8" :> <<"8">>) @@
    ("9" :> <<"9">>)

\* the string of the given characters
Intern(cs) == CHOOSE w \in DOMAIN Chars : Chars[w] = cs

Digits == <<"0", "1", "2", "3", "4", "5", "6", "7", "8", "9">>

IsDigit(ch) == \E i \in 1..Len(Digits) : Digits[i] = ch

DigitValue(ch) == (CHOOSE i \in 1..Len(Digits) : Digits[i] = ch) - 1

\* str(n), for the primary keys of the model
IntToStr(n) == Intern(<<Digits[n + 1]>>)

RECURSIVE CharsToInt(_)
CharsToInt(cs) ==
    IF cs = <<>> THEN 0
    ELSE 10 * CharsToInt(SubSeq(cs, 1, Len(cs) - 1)) + DigitValue(cs[Len(cs)])

\* int(s)
StrToInt(s) == CharsToInt(Chars[s])

Upper == <<"A", "B", "C", "D", "E", "F", "G", "H", "I", "J", "K", "L", "M",
           "N", "O", "P", "Q", "R", "S", "T", "U", "V", "W", "X", "Y", "Z">>

LowerLetters == <<"a", "b", "c", "d", "e", "f", "g", "h", "i", "j", "k", "l", "m",
                  "n", "o", "p", "q", "r", "s", "t", "u", "v", "w", "x", "y", "z">>

IsLowerLetter(ch) == \E i \in 1..Len(LowerLetters) : LowerLetters[i] = ch

\* str.lower() of one character
LowerChar(ch) ==
    IF \E i \in 1..Len(Upper) : Upper[i] = ch
    THEN LowerLetters[CHOOSE i \in 1..Len(Upper) : Upper[i] = ch]
    ELSE ch

\* str.upper() of one character
UpperChar(ch) ==
    IF IsLowerLetter(ch)
    THEN Upper[CHOOSE i \in 1..Len(LowerLetters) : LowerLetters[i] = ch]
    ELSE ch

RECURSIVE TitleChars(_, _)
\* str.title(): a letter after a letter is lowercased, any other letter uppercased
TitleChars(cs, afterLetter) ==
    IF cs = <<>> THEN <<>>
    ELSE IF LowerChar(cs[1]) # UpperChar(cs[1])
         THEN <<IF afterLetter THEN LowerChar(cs[1]) ELSE UpperChar(cs[1])>>
                  \o TitleChars(Tail(cs), TRUE)
         ELSE <<cs[1]>> \o TitleChars(Tail(cs), FALSE)

Title(s) == Intern(TitleChars(Chars[s], FALSE))

LowerChars(cs) == [i \in 1..Len(cs) |-> LowerChar(cs[i])]

RECURSIVE LStrip(_, _)
LStrip(cs, chars) == IF cs # <<>> /\ cs[1] \in chars THEN LStrip(Tail(cs), chars) ELSE cs

RECURSIVE RStrip(_, _)
RStrip(cs, chars) ==
    IF cs # <<>> /\ cs[Len(cs)] \in chars THEN RStrip(SubSeq(cs, 1, Len(cs) - 1), chars) ELSE cs

\* str.strip(chars)
Strip(cs, chars) == RStrip(LStrip(cs, chars), chars)

RECURSIVE SubNonAlnum(_, _)
\* re.sub(r"[^a-z0-9]+", "-", s): every maximal run of other characters becomes one "-"
SubNonAlnum(cs, inRun) ==
    IF cs = <<>> THEN <<>>
    ELSE IF IsLowerLetter(cs[1]) \/ IsDigit(cs[1])
         THEN <<cs[1]>> \o SubNonAlnum(Tail(cs), FALSE)
         ELSE IF inRun THEN SubNonAlnum(Tail(cs), TRUE)
              ELSE <<"-">> \o SubNonAlnum(Tail(cs), TRUE)

slugify(name) ==
    Intern(Strip(SubNonAlnum(Strip(LowerChars(Chars[name]), {" "}), FALSE), {"-"}))

\* name.lower().replace(" ", "-")
LowerDashed(name) ==
    Intern([i \in 1..Len(Chars[name]) |->
               IF Chars[name][i] = " " THEN "-" ELSE LowerChar(Chars[name][i])])

(***************************************************************************)
(* The declared ORM models (tests/conftest.py, examples/readonly/main.py):  *)
(* column metadata as sqlalchemy's mapper reports it.                       *)
(***************************************************************************)
Column(key, type, primary_key, nullable, default_kind, default, unique) ==
    [key |-> key, type |-> type, primary_key |-> primary_key, nullable |-> nullable,
     default_kind |-> default_kind, default |-> default, unique |-> unique]

User ==
    [name |-> "User", tablename |-> "users",
     columns |-> << Column("id", "Integer", TRUE, FALSE, "none", "None", FALSE),
                    Column("username", "String", FALSE, FALSE, "none", "None", TRUE),
                    Column("email", "String", FALSE, FALSE, "none", "None", FALSE),
                    Column("is_active", "Boolean", FALSE, FALSE, "scalar", "True", FALSE),
                    Column("created_at", "DateTime", FALSE, FALSE, "callable", "now", FALSE) >>]

Product ==
    [name |-> "Product", tablename |-> "products",
     columns |-> << Column("id", "Integer", TRUE, FALSE, "none", "None", FALSE),
                    Column("name", "String", FALSE, FALSE, "none", "None", FALSE),
                    Column("price", "Float", FALSE, FALSE, "none", "None", FALSE),
                    Column("sku", "String", FALSE, FALSE, "none", "None", TRUE) >>]

Models == {User, Product}

Tables == {m.tablename : m \in Models}

\* the model class a view's model attribute names
ModelOf(view) == CHOOSE m \in Models : m.name = view.model

\* getattr(self.model, "__tablename__", ...)
TableOf(view) == ModelOf(view).tablename

\* [col.key for col in mapper.columns]
ColumnKeys(model) == [i \in 1..Len(model.columns) |-> model.columns[i].key]

ColumnOf(model, key) ==
    model.columns[CHOOSE i \in 1..Len(model.columns) : model.columns[i].key = key]

InSeq(x, s) == \E i \in 1..Len(s) : s[i] = x

RECURSIVE SelectSeqBy(_, _, _)
\* [x for x in s if (x in t) = keep]
SelectSeqBy(s, t, keep) ==
    IF s = <<>> THEN <<>>
    ELSE (IF InSeq(s[1], t) = keep THEN <<s[1]>> ELSE <<>>) \o SelectSeqBy(Tail(s), t, keep)

\* mapper.primary_key[0].name
_get_pk_name(model) ==
    model.columns[CHOOSE i \in 1..Len(model.columns) :
                     /\ model.columns[i].primary_key
                     /\ \A j \in 1..(i - 1) : ~model.columns[j].primary_key].key

\* an Optional[List[str]] argument: None, or a list
None == [is_none |-> TRUE, items |-> <<>>]

List(items) == [is_none |-> FALSE, items |-> items]

\* the truth value python gives an optional list: None and [] are false
Truthy(x) == ~x.is_none /\ x.items # <<>>

\* x or []
OrEmpty(x) == IF Truthy(x) THEN x.items ELSE <<>>

(***************************************************************************)
(* View classes.  A view instance is written as its class: the attributes  *)
(* the code reads are class attributes.  column_list is None or a list,     *)
(* column_exclude_list a list.                                              *)
(***************************************************************************)
ViewClass(kind, name, model, column_list, column_exclude_list, cc, ce, cd, cv, visible) ==
    [kind |-> kind, name |-> name, model |-> model,
     column_list |-> column_list, column_exclude_list |-> column_exclude_list,
     can_create |-> cc, can_edit |-> ce, can_delete |-> cd, can_view_details |-> cv,
     is_visible |-> visible, page_size |-> 25]

\* tests/conftest.py
UserAdmin ==
    [ViewClass("model", "Users", "User", List(<<"id", "username", "email", "is_active">>), <<>>,
               TRUE, TRUE, TRUE, TRUE, TRUE) EXCEPT !.page_size = 10]

\* tests/test_admin.py
ReadOnlyUserAdmin ==
    ViewClass("model", "ReadOnlyUsers", "User", List(<<"id", "username">>), <<>>,
              FALSE, FALSE, FALSE, TRUE, TRUE)

\* examples/readonly/main.py
ProductAdmin ==
    ViewClass("model", "Products", "Product", List(<<"id", "name", "price", "sku">>), <<>>,
              TRUE, TRUE, FALSE, TRUE, TRUE)

\* tests/test_admin.py
CustomView == ViewClass("plain", "Custom", "none", None, <<>>, TRUE, TRUE, TRUE, TRUE, TRUE)

AdminIndexView ==
    ViewClass("index", "Dashboard", "none", None, <<>>, TRUE, TRUE, TRUE, TRUE, TRUE)

\* an argument of add_view that is not a class
NotAClass == ViewClass("object", "", "none", None, <<>>, TRUE, TRUE, TRUE, TRUE, TRUE)

\* no view: the endpoint of a route is a method of the admin itself
NoView == ViewClass("none", "", "none", None, <<>>, TRUE, TRUE, TRUE, TRUE, TRUE)

\* the classes the applications pass to add_view
DeclaredViews == {UserAdmin, ReadOnlyUserAdmin, ProductAdmin, CustomView, AdminIndexView}

\* every permission configuration of the declared model views
FlagViews ==
    {[v EXCEPT !.can_create = cc, !.can_edit = ce, !.can_delete = cd, !.can_view_details = cv] :
        v \in {UserAdmin, ProductAdmin},
        cc \in BOOLEAN, ce \in BOOLEAN, cd \in BOOLEAN, cv \in BOOLEAN}

IsModelView(v) == v.kind = "model"

IsIndexView(v) == v.kind = "index"

(***************************************************************************)
(* Routes.                                                                  *)
(***************************************************************************)
\* the path parameters "{pk:int}" and "{path:path}"
p_pk == "{pk:int}"
p_any == "{path:path}"

\* base_url.rstrip("/") of the default "/admin"
BaseUrl == <<"admin">>

\* starlette Route: a function endpoint without methods serves GET, and GET brings HEAD
Route(path, endpoint, methods, view, suffix) ==
    [path |-> path, endpoint |-> endpoint,
     methods |-> IF "GET" \in methods THEN methods \cup {"HEAD"} ELSE methods,
     view |-> view, name |-> <<view.name, suffix>>]

ListRoutes(view, base) ==
    << Route(base \o <<"">>, "_list_html", {"GET"}, view, "list"),
       Route(<<"api">> \o base \o <<"">>, "_list_api", {"GET"}, view, "list_api") >>

CreateRoutes(view, base) ==
    << Route(base \o <<"create">>, "_create_html", {"GET"}, view, "create"),
       Route(<<"api">> \o base \o <<"create">>, "_create_api", {"GET", "POST"}, view,
             "create_api") >>

DetailRoutes(view, base) ==
    << Route(base \o <<p_pk>>, "_detail_html", {"GET"}, view, "detail"),
       Route(<<"api">> \o base \o <<p_pk>>, "_detail_api", {"GET"}, view, "detail_api") >>

\* faulty edit routes: the HTML shell route is left out
EditRoutes_api_only(view, base) ==
    << Route(<<"api">> \o base \o <<p_pk, "edit">>, "_edit_api", {"GET", "POST"}, view,
             "edit_api") >>

EditRoutes(view, base) ==
    << Route(base \o <<p_pk, "edit">>, "_edit_html", {"GET"}, view, "edit"),
       Route(<<"api">> \o base \o <<p_pk, "edit">>, "_edit_api", {"GET", "POST"}, view,
             "edit_api") >>

DeleteRoutes(view, base) ==
    << Route(<<"api">> \o base \o <<p_pk, "delete">>, "_delete_api", {"POST"}, view,
             "delete_api") >>

\* a faulty get_routes: the delete route is registered whatever can_delete says
get_routes_delete_unguarded(view) ==
    LET base == <<TableOf(view)>> IN
    ListRoutes(view, base)
    \o (IF view.can_create THEN CreateRoutes(view, base) ELSE <<>>)
    \o (IF view.can_view_details THEN DetailRoutes(view, base) ELSE <<>>)
    \o (IF view.can_edit THEN EditRoutes(view, base) ELSE <<>>)
    \o DeleteRoutes(view, base)

\* a faulty get_routes: the edit routes are registered whatever can_edit says
get_routes_edit_unguarded(view) ==
    LET base == <<TableOf(view)>> IN
    ListRoutes(view, base)
    \o (IF view.can_create THEN CreateRoutes(view, base) ELSE <<>>)
    \o (IF view.can_view_details THEN DetailRoutes(view, base) ELSE <<>>)
    \o EditRoutes(view, base)
    \o (IF view.can_delete THEN DeleteRoutes(view, base) ELSE <<>>)

get_routes(view) ==
    LET base == <<TableOf(view)>> IN
    ListRoutes(view, base)
    \o (IF view.can_create THEN CreateRoutes(view, base) ELSE <<>>)
    \o (IF view.can_view_details THEN DetailRoutes(view, base) ELSE <<>>)
    \o (IF view.can_edit THEN EditRoutes(view, base) ELSE <<>>)
    \o (IF view.can_delete THEN DeleteRoutes(view, base) ELSE <<>>)

RECURSIVE ModelViewRoutes(_)
\* for view in self._model_views: routes.extend(view.get_routes())
ModelViewRoutes(mvs) ==
    IF mvs = <<>> THEN <<>> ELSE get_routes(mvs[1]) \o ModelViewRoutes(Tail(mvs))

RECURSIVE PlainViewRoutes(_)
\* for base_view in self._views: skip index and model views, else an HTML and an API route
PlainViewRoutes(vs) ==
    IF vs = <<>> THEN <<>>
    ELSE (IF IsIndexView(vs[1]) \/ IsModelView(vs[1]) THEN <<>>
          ELSE << Route(<<slugify(vs[1].name), "">>, "view_html", {"GET"}, vs[1], "html"),
                  Route(<<"api", slugify(vs[1].name), "">>, "view_api", {"GET"}, vs[1], "api") >>)
         \o PlainViewRoutes(Tail(vs))

\* a route whose endpoint is a method of the admin
AdminRoute(path, endpoint, name) ==
    [path |-> path, endpoint |-> endpoint, methods |-> {"GET", "HEAD"}, view |-> NoView,
     name |-> <<"", name>>]

IndexRoutes ==
    << AdminRoute(<<"">>, "_index_html", "index"),
       AdminRoute(<<"api", "">>, "_index_api", "index_api") >>

CatchAllRoute == AdminRoute(<<p_any>>, "_catch_all_html", "catch_all")

\* a faulty _build_routes: the catch-all is registered first
_build_routes_catch_all_first(vs, mvs) ==
    <<CatchAllRoute>> \o IndexRoutes \o ModelViewRoutes(mvs) \o PlainViewRoutes(vs)

_build_routes(vs, mvs) ==
    IndexRoutes \o ModelViewRoutes(mvs) \o PlainViewRoutes(vs) \o <<CatchAllRoute>>

(***************************************************************************)
(* Class declaration (views.py __init_subclass__).  A class is written as   *)
(* its __name__ and what its __dict__ holds for "name".                     *)
(***************************************************************************)
\* an attribute that is not there
Missing == "<missing>"

\* class cls_name(...): name = own_name   (no name line when own_name is Missing)
ClassBody(cls_name, own_name) ==
    [cls_name |-> cls_name, has_name |-> own_name # Missing,
     name |-> IF own_name = Missing THEN "" ELSE own_name, model |-> "none"]

\* cls.__dict__.get("name")
DictGetName(cls) == IF cls.has_name THEN cls.name ELSE "None"

BaseView__init_subclass__(cls) ==
    IF DictGetName(cls) \in {"None", ""}
    THEN [cls EXCEPT !.has_name = TRUE, !.name = cls.cls_name]
    ELSE cls

\* model=None, the default of the class keyword
NoModel == [name |-> "None", tablename |-> Missing]

\* getattr(model, "__tablename__", model.__name__)
TableNameOr(model) == IF model.tablename = Missing THEN model.name ELSE model.tablename

BaseModelView__init_subclass__(cls, model) ==
    LET base == BaseView__init_subclass__(cls)
    IN  IF model # NoModel
        THEN IF ~base.has_name
             THEN [base EXCEPT !.model = model.name, !.has_name = TRUE,
                               !.name = Title(TableNameOr(model))]
             ELSE [base EXCEPT !.model = model.name]
        ELSE base

(***************************************************************************)
(* Schemas (utils.py).                                                      *)
(***************************************************************************)
\* a map that lists Numeric before Float
SA_TYPE_MAP_numeric_first ==
    << <<"BigInteger", "int">>, <<"SmallInteger", "int">>, <<"Integer", "int">>,
       <<"Numeric", "Decimal">>, <<"Float", "float">>, <<"String", "str">>,
       <<"Text", "str">>, <<"Boolean", "bool">>, <<"DateTime", "datetime">>,
       <<"Date", "date">>, <<"Time", "time">> >>

\* SA_TYPE_MAP in its iteration order
SA_TYPE_MAP ==
    << <<"BigInteger", "int">>, <<"SmallInteger", "int">>, <<"Integer", "int">>,
       <<"Float", "float">>, <<"Numeric", "Decimal">>, <<"String", "str">>,
       <<"Text", "str">>, <<"Boolean", "bool">>, <<"DateTime", "datetime">>,
       <<"Date", "date">>, <<"Time", "time">> >>

\* the sqlalchemy type a sqlalchemy type derives from
SaBase(type) ==
    CASE type = "BigInteger" -> "Integer"
      [] type = "SmallInteger" -> "Integer"
      [] type = "Float" -> "Numeric"
      [] type = "Text" -> "String"
      [] type = "Double" -> "Float"
      [] type = "Unicode" -> "String"
      [] type \in {"CustomType", "TypeEngine"} -> "object"
      [] OTHER -> "TypeEngine"

\* isinstance(sa_type, sa_cls): cls is the type's class or one it derives from
RECURSIVE IsInstance(_, _)
IsInstance(type, cls) ==
    \/ type = cls
    \/ type # "object" /\ IsInstance(SaBase(type), cls)

RECURSIVE FirstMapped(_, _)
FirstMapped(type, map) ==
    IF map = <<>> THEN "str"
    ELSE IF IsInstance(type, map[1][1]) THEN map[1][2] ELSE FirstMapped(type, Tail(map))

get_python_type(sa_type) == FirstMapped(sa_type, SA_TYPE_MAP)

\* the scalar default of a column; "None" when it has none or a callable one
_extract_sa_default(column) ==
    IF column.default_kind = "none" THEN "None"
    ELSE IF column.default_kind = "callable" THEN "None"
    ELSE column.default

\* a faulty field: the default is tested for truth, not against None
Field_truthy_default(column) ==
    LET default_value ==
            IF _extract_sa_default(column) \in {"False", "0", ""} THEN "None"
            ELSE _extract_sa_default(column)
    IN  [name |-> column.key,
         py_type |-> get_python_type(column.type),
         nullable |-> column.nullable,
         required |-> default_value = "None" /\ ~column.nullable,
         default |-> default_value]

\* the pydantic field made for a column
Field(column) ==
    [name |-> column.key,
     py_type |-> get_python_type(column.type),
     nullable |-> column.nullable,
     required |-> _extract_sa_default(column) = "None" /\ ~column.nullable,
     default |-> _extract_sa_default(column)]

RECURSIVE SchemaFields(_, _, _, _, _)
SchemaFields(columns, include_columns, exclude_columns, for_form, pk_name) ==
    IF columns = <<>> THEN <<>>
    ELSE (IF \/ (Truthy(include_columns) /\ ~InSeq(columns[1].key, include_columns.items))
             \/ InSeq(columns[1].key, exclude_columns)
             \/ (for_form /\ columns[1].key = pk_name)
          THEN <<>>
          ELSE <<Field(columns[1])>>)
         \o SchemaFields(Tail(columns), include_columns, exclude_columns, for_form, pk_name)

\* a variant in which a given include_columns list decides alone about the key
sqlalchemy_to_pydantic_include_wins(model, include_columns, exclude_columns, for_form) ==
    SchemaFields(model.columns, include_columns, OrEmpty(exclude_columns),
                 for_form /\ ~Truthy(include_columns), _get_pk_name(model))

sqlalchemy_to_pydantic(model, include_columns, exclude_columns, for_form) ==
    SchemaFields(model.columns, include_columns, OrEmpty(exclude_columns), for_form,
                 _get_pk_name(model))

\* a faulty _get_columns: column_exclude_list is applied to column_list too
_get_columns_excluding(view) ==
    SelectSeqBy(IF Truthy(view.column_list)
                THEN SelectSeqBy(view.column_list.items, ColumnKeys(ModelOf(view)), TRUE)
                ELSE ColumnKeys(ModelOf(view)),
                view.column_exclude_list, FALSE)

_get_columns(view) ==
    IF Truthy(view.column_list)
    THEN SelectSeqBy(view.column_list.items, ColumnKeys(ModelOf(view)), TRUE)
    ELSE SelectSeqBy(ColumnKeys(ModelOf(view)), view.column_exclude_list, FALSE)

_get_pydantic_model(view) ==
    sqlalchemy_to_pydantic(ModelOf(view), List(_get_columns(view)), None, FALSE)

_get_form_model(view) ==
    sqlalchemy_to_pydantic(
        ModelOf(view),
        List(SelectSeqBy(_get_columns(view), <<_get_pk_name(ModelOf(view))>>, FALSE)),
        None, FALSE)

(***************************************************************************)
(* Request bodies: JSON objects; a key mapped to Absent is not in the      *)
(* object.  A value is written [t, v]: its JSON type and its literal.       *)
(***************************************************************************)
Absent == [t |-> "absent", v |-> "None"]
JStr(v) == [t |-> "string", v |-> v]
JNum(v) == [t |-> "number", v |-> v]

Usernames == {"alice", "bob"}

UserBodies ==
    {[username |-> u, email |-> JStr("a@example.com"), is_active |-> Absent] :
        u \in {JStr(n) : n \in Usernames} \cup {Absent, JNum("5")}}

ProductBodies ==
    {[name |-> JStr("Widget"), price |-> pr, sku |-> JStr("SKU-001")] :
        pr \in {JNum("9.99"), JStr("cheap")}}

\* no body, or a body that is not JSON: request.json() raises
NoJson == [json |-> FALSE, obj |-> [none |-> Absent]]

Bodies(model) ==
    {[json |-> TRUE, obj |-> o] : o \in (IF model = User THEN UserBodies ELSE ProductBodies)}
    \cup {NoJson}

\* pydantic's check of a JSON value against the python type of a field
ValueFits(py_type, j) ==
    CASE py_type = "str" -> j.t = "string"
      [] py_type = "bool" -> j.t = "bool"
      [] py_type \in {"int", "float", "Decimal"} -> j.t = "number"
      [] OTHER -> j.t = "string"

Given(obj, key) == key \in DOMAIN obj /\ obj[key].t # "absent"

FieldValid(f, obj) == IF Given(obj, f.name) THEN ValueFits(f.py_type, obj[f.name]) ELSE ~f.required

\* form_model.model_validate(raw_data) raises no ValidationError
model_validate_ok(schema, obj) == \A i \in 1..Len(schema) : FieldValid(schema[i], obj)

FieldOf(schema, name) == schema[CHOOSE i \in 1..Len(schema) : schema[i].name = name]

\* validated.model_dump(): every field of the schema, given or defaulted
model_dump(schema, obj) ==
    [k \in {schema[i].name : i \in 1..Len(schema)} |->
        IF Given(obj, k) THEN obj[k].v ELSE FieldOf(schema, k).default]

(***************************************************************************)
(* The database behind the session: rows by primary key, NOT NULL and      *)
(* UNIQUE constraints, integer primary keys handed out as max + 1.          *)
(***************************************************************************)
NonPkColumns(model) ==
    {model.columns[i] : i \in {j \in 1..Len(model.columns) : ~model.columns[j].primary_key}}

RowKeys(model) == {c.key : c \in NonPkColumns(model)}

SetMax(S) == CHOOSE x \in S : \A y \in S : y <= x

NextPk(rows) == IF DOMAIN rows = {} THEN 1 ELSE SetMax(DOMAIN rows) + 1

\* the row the ORM inserts for model(**values): column defaults fill what is not given
NewRow(model, values) ==
    [k \in RowKeys(model) |->
        IF k \in DOMAIN values THEN values[k]
        ELSE IF ColumnOf(model, k).default_kind = "none" THEN "None"
        ELSE ColumnOf(model, k).default]

\* setattr(item, key, value) for every validated value
UpdatedRow(model, row, values) ==
    [k \in RowKeys(model) |-> IF k \in DOMAIN values THEN values[k] ELSE row[k]]

\* the row at key pk satisfies the table's constraints among the other rows
ConstraintsHold(model, rows, pk, row) ==
    \A c \in NonPkColumns(model) :
        /\ (~c.nullable => row[c.key] # "None")
        /\ (c.unique => \A q \in DOMAIN rows \ {pk} : rows[q][c.key] # row[c.key])

NoRows == [pk \in {} |-> "None"]

EmptyDb == [t \in Tables |-> NoRows]

(***************************************************************************)
(* Endpoints.  Each yields the response, the database after it, and what   *)
(* became of the session it opened: "none" (no session), "read",           *)
(* "committed" or "rolled_back".                                            *)
(***************************************************************************)
Response(status, media, kind, url) ==
    [status |-> status, media |-> media, kind |-> kind, url |-> url]

Result(resp, d, session) == [resp |-> resp, db |-> d, session |-> session]

\* HTMLResponse(self.layout.get_prebuilt_html(...))
Html == Response(200, "html", "shell", <<>>)

\* JSONResponse({"detail": "Not found"}, status_code=404)
NotFound == Response(404, "json", "not_found", <<>>)

\* an exception no handler catches
ServerError == Response(500, "text", "server_error", <<>>)

\* _get_session_maker raises RuntimeError("No session maker configured. ...")
NoSessionMaker == Response(500, "text", "no_session_maker", <<>>)

MethodNotAllowed == Response(405, "text", "method_not_allowed", <<>>)

\* a page of components
Page(kind) == Response(200, "json", kind, <<>>)

\* [c.FireEvent(event=GoToEvent(url=url))]
GoTo(url) == Response(200, "json", "redirect", url)

get_url(view) ==
    IF IsIndexView(view) THEN BaseUrl
    ELSE IF IsModelView(view) THEN BaseUrl \o <<TableOf(view)>>
    ELSE BaseUrl \o <<LowerDashed(view.name)>>

_error_response(view) == Response(400, "json", "error", <<>>)

\* BaseAdmin.get_relative_url: the URL without the base_url prefix, "/" when nothing is left
get_relative_url(url) ==
    IF Len(url) >= Len(BaseUrl) /\ SubSeq(url, 1, Len(BaseUrl)) = BaseUrl
    THEN IF Len(url) = Len(BaseUrl) THEN <<"">> ELSE SubSeq(url, Len(BaseUrl) + 1, Len(url))
    ELSE url

\* c.Link(components=[c.Text(text=view.name)], on_click=GoToEvent(url=url))
Link(view) == [text |-> view.name, url |-> get_relative_url(get_url(view))]

RECURSIVE navbar_of_all(_)
\* a faulty navbar: is_visible is not read
navbar_of_all(vs) ==
    IF vs = <<>> THEN <<>> ELSE <<Link(vs[1])>> \o navbar_of_all(Tail(vs))

RECURSIVE navbar(_)
\* MasterLayout.navbar: the start_links, one per visible view of admin.views
navbar(vs) ==
    IF vs = <<>> THEN <<>>
    ELSE (IF vs[1].is_visible THEN <<Link(vs[1])>> ELSE <<>>) \o navbar(Tail(vs))

\* the pages built by layout.render(...)
LayoutKinds == {"list", "detail", "form", "error", "dashboard", "welcome"}

\* MasterLayout.render: the page with the navbar of the admin's views
render(resp, vs) ==
    IF resp.kind \in LayoutKinds THEN [navbar |-> navbar(vs)] @@ resp ELSE resp

\* int(s) of a string: optional blanks around an optional sign and digits, or ValueError
int(s) ==
    LET cs == Strip(Chars[s], {" "})
        signed == cs # <<>> /\ cs[1] \in {"-", "+"}
        ds == IF signed THEN Tail(cs) ELSE cs
    IN  IF ds # <<>> /\ \A i \in 1..Len(ds) : IsDigit(ds[i])
        THEN [raised |-> "none",
              value |-> IF signed /\ cs[1] = "-" THEN 0 - CharsToInt(ds) ELSE CharsToInt(ds)]
        ELSE [raised |-> "ValueError", value |-> 0]

max(a, b) == IF a >= b THEN a ELSE b

\* try: page = max(1, int(request.query_params.get("page", 1))) except: page = 1
PageOf(query) ==
    IF query = Missing THEN max(1, 1)
    ELSE IF int(query).raised = "none" THEN max(1, int(query).value)
    ELSE 1

RECURSIVE Ascending(_)
\* the keys of a table as a scan of the table yields them
Ascending(S) ==
    IF S = {} THEN <<>>
    ELSE LET least == CHOOSE x \in S : \A y \in S : x <= y
         IN  <<least>> \o Ascending(S \ {least})

\* stmt.offset(offset).limit(limit) over the scanned rows
OffsetLimit(seq, offset, limit) ==
    SubSeq(seq, offset + 1, IF offset + limit <= Len(seq) THEN offset + limit ELSE Len(seq))

\* what the list page is built from: c.Pagination(page, page_size, total) and the table's data
Listing(page, page_size, offset, total, items) ==
    [page |-> page, page_size |-> page_size, offset |-> offset, total |-> total,
     items |-> items]

NoListing == Listing(0, 0, 0, 0, <<>>)

\* a faulty list API: the page taken from the query as it is
_list_api_unclamped(view, sm, d, query) ==
    LET page == IF query # Missing /\ int(query).raised = "none" THEN int(query).value ELSE 1
        rows == d[TableOf(view)]
    IN  IF sm = "None" THEN Result(NoSessionMaker, d, "none")
        ELSE IF (page - 1) * view.page_size < 0 THEN Result(ServerError, d, "read")
        ELSE Result([listing |-> Listing(page, view.page_size, (page - 1) * view.page_size,
                                         Cardinality(DOMAIN rows),
                                         OffsetLimit(Ascending(DOMAIN rows),
                                                     (page - 1) * view.page_size,
                                                     view.page_size))]
                    @@ Page("list"), d, "read")

_list_api(view, sm, d, query) ==
    LET page == PageOf(query)
        page_size == view.page_size
        rows == d[TableOf(view)]
        total == Cardinality(DOMAIN rows)
        offset == (page - 1) * page_size
        items == OffsetLimit(Ascending(DOMAIN rows), offset, page_size)
    IN  IF sm = "None" THEN Result(NoSessionMaker, d, "none")
        ELSE Result([listing |-> Listing(page, page_size, offset, total, items)]
                    @@ Page("list"), d, "read")

_detail_api(view, pk, sm, d) ==
    IF sm = "None" THEN Result(NoSessionMaker, d, "none")
    ELSE IF pk \notin DOMAIN d[TableOf(view)] THEN Result(NotFound, d, "read")
    ELSE Result(Page("detail"), d, "read")

\* a faulty create: the new row overwrites the row with the largest key
CreateRecord_overwriting(view, values, sm, d) ==
    LET t == TableOf(view)
        pk == IF DOMAIN d[t] = {} THEN 1 ELSE SetMax(DOMAIN d[t])
        row == NewRow(ModelOf(view), values)
    IN IF sm = "None" THEN Result(NoSessionMaker, d, "none")
       ELSE IF ~ConstraintsHold(ModelOf(view), d[t], pk, row)
       THEN Result(_error_response(view), d, "rolled_back")
       ELSE Result(GoTo(get_url(view) \o <<IntToStr(pk)>>),
                   [d EXCEPT ![t] = (pk :> row) @@ d[t]], "committed")

\* a faulty create: the failed insert is not rolled back
CreateRecord_no_rollback(view, values, sm, d) ==
    LET t == TableOf(view)
        pk == NextPk(d[t])
        row == NewRow(ModelOf(view), values)
    IN IF sm = "None" THEN Result(NoSessionMaker, d, "none")
       ELSE IF ~ConstraintsHold(ModelOf(view), d[t], pk, row)
       THEN Result(_error_response(view), [d EXCEPT ![t] = (pk :> row) @@ d[t]], "committed")
       ELSE Result(GoTo(get_url(view) \o <<IntToStr(pk)>>),
                   [d EXCEPT ![t] = (pk :> row) @@ d[t]], "committed")

\* the POST branch of _create_api once the body is validated
CreateRecord(view, values, sm, d) ==
    LET t == TableOf(view)
        pk == NextPk(d[t])
        row == NewRow(ModelOf(view), values)
    IN IF sm = "None" THEN Result(NoSessionMaker, d, "none")
       ELSE IF ~ConstraintsHold(ModelOf(view), d[t], pk, row)
       THEN Result(_error_response(view), d, "rolled_back")
       ELSE Result(GoTo(get_url(view) \o <<IntToStr(pk)>>),
                   [d EXCEPT ![t] = (pk :> row) @@ d[t]], "committed")

\* a faulty _create_api: the body goes to the model without validation
_create_api_unvalidated(view, method, body, sm, d) ==
    IF method = "GET" THEN Result(Page("form"), d, "none")
    ELSE IF ~body.json THEN Result(ServerError, d, "none")
    ELSE CreateRecord(view, model_dump(_get_form_model(view), body.obj), sm, d)

_create_api(view, method, body, sm, d) ==
    IF method = "GET" THEN Result(Page("form"), d, "none")
    ELSE IF ~body.json THEN Result(ServerError, d, "none")
    ELSE IF ~model_validate_ok(_get_form_model(view), body.obj)
    THEN Result(_error_response(view), d, "none")
    ELSE CreateRecord(view, model_dump(_get_form_model(view), body.obj), sm, d)

\* a faulty update: the values are set on the item but never committed
UpdateRecord_unsaved(view, pk, values, d) ==
    LET t == TableOf(view)
        row == UpdatedRow(ModelOf(view), d[t][pk], values)
    IN IF ~ConstraintsHold(ModelOf(view), d[t], pk, row)
       THEN Result(_error_response(view), d, "rolled_back")
       ELSE Result(GoTo(get_url(view) \o <<IntToStr(pk)>>), d, "read")

\* the POST branch of _edit_api once the record is found and the body validated
UpdateRecord(view, pk, values, d) ==
    LET t == TableOf(view)
        row == UpdatedRow(ModelOf(view), d[t][pk], values)
    IN IF ~ConstraintsHold(ModelOf(view), d[t], pk, row)
       THEN Result(_error_response(view), d, "rolled_back")
       ELSE Result(GoTo(get_url(view) \o <<IntToStr(pk)>>),
                   [d EXCEPT ![t] = [@ EXCEPT ![pk] = row]], "committed")

_edit_api(view, method, pk, body, sm, d) ==
    IF sm = "None" THEN Result(NoSessionMaker, d, "none")
    ELSE IF pk \notin DOMAIN d[TableOf(view)] THEN Result(NotFound, d, "read")
    ELSE IF method = "GET" THEN Result(Page("form"), d, "read")
    ELSE IF ~body.json THEN Result(ServerError, d, "read")
    ELSE IF ~model_validate_ok(_get_form_model(view), body.obj)
    THEN Result(_error_response(view), d, "read")
    ELSE UpdateRecord(view, pk, model_dump(_get_form_model(view), body.obj), d)

\* a faulty _delete_api: the record is not looked up before the delete
_delete_api_unchecked(view, pk, sm, d) ==
    IF sm = "None" THEN Result(NoSessionMaker, d, "none")
    ELSE Result(GoTo(get_url(view) \o <<"">>),
                [d EXCEPT ![TableOf(view)] = [q \in (DOMAIN @) \ {pk} |-> @[q]]],
                "committed")

\* a faulty _delete_api: the delete is never committed
_delete_api_no_commit(view, pk, sm, d) ==
    IF sm = "None" THEN Result(NoSessionMaker, d, "none")
    ELSE IF pk \notin DOMAIN d[TableOf(view)] THEN Result(NotFound, d, "read")
    ELSE Result(GoTo(get_url(view) \o <<"">>), d, "read")

_delete_api(view, pk, sm, d) ==
    IF sm = "None" THEN Result(NoSessionMaker, d, "none")
    ELSE IF pk \notin DOMAIN d[TableOf(view)] THEN Result(NotFound, d, "read")
    ELSE Result(GoTo(get_url(view) \o <<"">>),
                [d EXCEPT ![TableOf(view)] = [q \in (DOMAIN @) \ {pk} |-> @[q]]],
                "committed")

\* BaseAdmin._index_api: renders the first view
_index_api(vs, d) ==
    IF vs = <<>> THEN Result(Page("welcome"), d, "none")
    ELSE IF IsIndexView(vs[1]) THEN Result(Page("dashboard"), d, "none")
    ELSE Result(Page("empty"), d, "none")

(***************************************************************************)
(* Request routing of the mounted sub-application (starlette Router): the  *)
(* first route that matches path and method serves the request; failing    *)
(* that, the first route that matches the path alone answers 405.           *)
(***************************************************************************)
\* the int convertor: [0-9]+
IsIntSeg(seg) == Chars[seg] # <<>> /\ \A i \in 1..Len(Chars[seg]) : IsDigit(Chars[seg][i])

SegMatches(pat, seg) == IF pat = p_pk THEN IsIntSeg(seg) ELSE pat = seg

PathMatches(pattern, path) ==
    IF pattern = <<p_any>> THEN TRUE
    ELSE /\ Len(pattern) = Len(path)
         /\ \A i \in 1..Len(pattern) : SegMatches(pattern[i], path[i])

RouteMatch(route, method, path) ==
    IF ~PathMatches(route.path, path) THEN "NONE"
    ELSE IF method \in route.methods THEN "FULL"
    ELSE "PARTIAL"

\* request.path_params["pk"]
PkParam(route, path) ==
    StrToInt(path[CHOOSE i \in 1..Len(route.path) : route.path[i] = p_pk])

HtmlEndpoints ==
    {"_index_html", "_catch_all_html", "view_html", "_list_html", "_create_html",
     "_detail_html", "_edit_html"}

EndpointResult(route, method, path, query, body, sm, vs, d) ==
    CASE route.endpoint \in HtmlEndpoints -> Result(Html, d, "none")
      [] route.endpoint = "_index_api" -> _index_api(vs, d)
      [] route.endpoint = "view_api" -> Result(Page("empty"), d, "none")
      [] route.endpoint = "_list_api" -> _list_api(route.view, sm, d, query)
      [] route.endpoint = "_detail_api" -> _detail_api(route.view, PkParam(route, path), sm, d)
      [] route.endpoint = "_create_api" -> _create_api(route.view, method, body, sm, d)
      [] route.endpoint = "_edit_api" ->
            _edit_api(route.view, method, PkParam(route, path), body, sm, d)
      [] route.endpoint = "_delete_api" -> _delete_api(route.view, PkParam(route, path), sm, d)

\* the endpoint's answer; its pages come out of the layout of the admin
Endpoint(route, method, path, query, body, sm, vs, d) ==
    LET r == EndpointResult(route, method, path, query, body, sm, vs, d)
    IN  Result(render(r.resp, vs), r.db, r.session)

NoRoute == AdminRoute(<<>>, "none", "none")

RECURSIVE Scan(_, _, _, _, _)
\* Router.app: the loop over the routes from the i-th on, partial the first partial match so far
Scan(routes, i, method, path, partial) ==
    IF i > Len(routes)
    THEN IF partial = NoRoute THEN [match |-> "NONE", route |-> NoRoute]
         ELSE [match |-> "PARTIAL", route |-> partial]
    ELSE IF RouteMatch(routes[i], method, path) = "FULL"
    THEN [match |-> "FULL", route |-> routes[i]]
    ELSE IF RouteMatch(routes[i], method, path) = "PARTIAL" /\ partial = NoRoute
    THEN Scan(routes, i + 1, method, path, routes[i])
    ELSE Scan(routes, i + 1, method, path, partial)

\* the route that answers a request, and how it matched
Dispatch(routes, method, path) == Scan(routes, 1, method, path, NoRoute)

\* Route.handle: the endpoint, or 405 when the method is not one of the route's
Handle(m, method, path, query, body, sm, vs, d) ==
    IF m.match = "FULL" THEN Endpoint(m.route, method, path, query, body, sm, vs, d)
    ELSE IF m.match = "PARTIAL" THEN Result(MethodNotAllowed, d, "none")
    ELSE Result(NotFound, d, "none")

\* the answer of the mounted admin to a request, with the route that gave it
Serve(routes, method, path, query, body, sm, vs, d) ==
    LET m == Dispatch(routes, method, path)
    IN [route |-> m.route] @@ Handle(m, method, path, query, body, sm, vs, d)

(***************************************************************************)
(* The requests of the model.                                               *)
(***************************************************************************)
Methods == {"GET", "POST"}

\* the keys a request names: every key the database can hold and one it cannot
PkSegs == {IntToStr(n) : n \in 1..(MaxPk + 1)}

\* the paths of a model view's screens for table g, registered or not
PathsUnder(g) ==
    {<<g, "">>, <<"api", g, "">>, <<g>>, <<g, "create">>, <<"api", g, "create">>}
    \cup UNION {{<<g, k>>, <<"api", g, k>>, <<g, k, "edit">>, <<"api", g, k, "edit">>,
                 <<g, k, "delete">>, <<"api", g, k, "delete">>} : k \in PkSegs}

\* the paths of a plain view's screens
PlainPaths(g) == {<<g, "">>, <<"api", g, "">>, <<g>>}

RequestPaths ==
    {<<"">>, <<"api", "">>, <<"api">>, <<"some", "random", "path">>}
    \cup UNION {PathsUnder(g) : g \in Tables}
    \cup PlainPaths(slugify(CustomView.name))

\* the model whose table a path names
ModelAt(path) == CHOOSE m \in Models : m.tablename = path[2]

\* the bodies worth sending: only the create and edit APIs read the body, on POST
BodiesFor(method, path) ==
    IF /\ method = "POST"
       /\ Len(path) >= 3
       /\ path[1] = "api"
       /\ path[2] \in Tables
       /\ path[Len(path)] \in {"create", "edit"}
    THEN Bodies(ModelAt(path))
    ELSE {NoJson}

(***************************************************************************)
(* State machine.  last holds the call in progress: Return hands its       *)
(* outcome to the caller, and the next call starts after that.              *)
(***************************************************************************)
Idle ==
    [op |-> "none", raised |-> "none", engine |-> "None", sm |-> "None", arg |-> NoView,
     method |-> "none", path |-> <<>>, body |-> NoJson, endpoint |-> "none", view |-> NoView,
     status |-> 0, kind |-> "none", url |-> <<>>, session |-> "none", before |-> EmptyDb,
     model |-> "none", include_columns |-> None, exclude_columns |-> None,
     for_form |-> FALSE, sa_type |-> "none", py_type |-> "none", result |-> <<>>,
     declared_name |-> "none", model_arg |-> NoModel, cls |-> ClassBody("none", Missing),
     query |-> Missing, listing |-> NoListing, navbar |-> <<>>,
     column |-> Column("none", "String", FALSE, FALSE, "none", "None", FALSE),
     field |-> Field(Column("none", "String", FALSE, FALSE, "none", "None", FALSE))]

Call(op, raised) == [Idle EXCEPT !.op = op, !.raised = raised]

\* the state before the application constructs its admin
Fresh ==
    /\ admin_exists = FALSE
    /\ session_maker = "None"
    /\ views = <<>>
    /\ model_views = <<>>
    /\ mounted = FALSE
    /\ app_routes = <<>>
    /\ db = EmptyDb
    /\ last = Idle

\* an application that declares the view classes of the tests and the examples
Init == declared = DeclaredViews /\ Fresh

\* an application that declares one model view class, with any permission flags
InitFlags == declared \in {{v} : v \in FlagViews} /\ Fresh

EngineKinds == {"None", "Engine", "AsyncEngine"}

SessionMakerKinds == {"None", "sessionmaker", "async_sessionmaker"}

\* a faulty _validate_session_maker: a sync sessionmaker passes
_validate_session_maker_lenient(sm) == "none"

\* what _validate_session_maker raises
_validate_session_maker(sm) == IF sm = "sessionmaker" THEN "TypeError" ELSE "none"

\* a faulty _create_session_maker: a sync engine yields no session maker and no error
_create_session_maker_silent(engine) ==
    IF engine = "AsyncEngine" THEN "async_sessionmaker" ELSE "None"

\* the session maker made from the engine, or the TypeError raised
_create_session_maker(engine) ==
    IF engine = "None" THEN "None"
    ELSE IF engine = "AsyncEngine" THEN "async_sessionmaker"
    ELSE "TypeError"

\* BaseAdmin.__init__: what it raises and the session maker it stores
BaseAdmin__init__(engine, sm) ==
    IF engine = "None" /\ sm = "None" THEN [raised |-> "TypeError", session_maker |-> "None"]
    ELSE IF sm # "None" /\ _validate_session_maker(sm) # "none"
    THEN [raised |-> _validate_session_maker(sm), session_maker |-> "None"]
    ELSE IF sm # "None" THEN [raised |-> "none", session_maker |-> sm]
    ELSE IF _create_session_maker(engine) = "TypeError"
    THEN [raised |-> "TypeError", session_maker |-> "None"]
    ELSE [raised |-> "none", session_maker |-> _create_session_maker(engine)]

NewAdmin(engine, sm) ==
    /\ last.op = "none"
    /\ ~admin_exists
    /\ admin_exists' = (BaseAdmin__init__(engine, sm).raised = "none")
    /\ session_maker' = BaseAdmin__init__(engine, sm).session_maker
    /\ last' = [Call("init", BaseAdmin__init__(engine, sm).raised)
                   EXCEPT !.engine = engine, !.sm = sm]
    /\ UNCHANGED <<declared, views, model_views, mounted, app_routes, db>>

\* a faulty add_view: the _mounted check is left out
add_view_unguarded(view) ==
    /\ last.op = "none"
    /\ admin_exists
    /\ Len(views) < MaxViews + 1
    /\ last' = [Call("add_view", "none") EXCEPT !.arg = view]
    /\ IF view.kind = "model"
       THEN /\ model_views' = Append(model_views, view)
            /\ views' = Append(views, view)
       ELSE IF view.kind \in {"plain", "index"}
       THEN /\ views' = Append(views, view)
            /\ UNCHANGED model_views
       ELSE UNCHANGED <<views, model_views>>
    /\ UNCHANGED <<declared, admin_exists, session_maker, mounted, app_routes, db>>

add_view(view) ==
    /\ last.op = "none"
    /\ admin_exists
    /\ IF mounted
       THEN /\ last' = [Call("add_view", "RuntimeError") EXCEPT !.arg = view]
            /\ UNCHANGED <<views, model_views>>
       ELSE /\ Len(views) < MaxViews
            /\ last' = [Call("add_view", "none") EXCEPT !.arg = view]
            /\ IF view.kind = "model"
               THEN /\ model_views' = Append(model_views, view)
                    /\ views' = Append(views, view)
               ELSE IF view.kind \in {"plain", "index"}
               THEN /\ views' = Append(views, view)
                    /\ UNCHANGED model_views
               ELSE UNCHANGED <<views, model_views>>
    /\ UNCHANGED <<declared, admin_exists, session_maker, mounted, app_routes, db>>

mount ==
    /\ last.op = "none"
    /\ admin_exists
    /\ last' = Call("mount", "none")
    /\ IF mounted
       THEN UNCHANGED <<views, mounted, app_routes>>
       ELSE /\ views' = <<AdminIndexView>> \o views
            /\ app_routes' = Append(app_routes,
                    [path |-> BaseUrl, name |-> "admin",
                     routes |-> _build_routes(<<AdminIndexView>> \o views, model_views)])
            /\ mounted' = TRUE
    /\ UNCHANGED <<declared, admin_exists, session_maker, model_views, db>>

\* rows written through a session of the application's own (test fixtures, seed scripts)
SeedRows(model) ==
    IF model = User
    THEN {[username |-> "alice", email |-> "a@example.com", is_active |-> "True",
           created_at |-> "now"],
          [username |-> "bob", email |-> "a@example.com", is_active |-> "False",
           created_at |-> "now"]}
    ELSE {[name |-> "Widget", price |-> "9.99", sku |-> "SKU-001"]}

Seed(model, row) ==
    /\ last.op = "none"
    /\ mounted
    /\ NextPk(db[model.tablename]) <= MaxPk
    /\ ConstraintsHold(model, db[model.tablename], NextPk(db[model.tablename]), row)
    /\ db' = [db EXCEPT ![model.tablename] = (NextPk(@) :> row) @@ @]
    /\ last' = Call("seed", "none")
    /\ UNCHANGED <<declared, admin_exists, session_maker, views, model_views, mounted, app_routes>>

Request(method, path, query, body) ==
    /\ last.op = "none"
    /\ mounted
    /\ \E r \in {Serve(app_routes[1].routes, method, path, query, body, session_maker,
                       views, db)} :
        /\ \A t \in Tables : DOMAIN r.db[t] \subseteq 1..MaxPk
        /\ db' = r.db
        /\ last' = [Idle EXCEPT !.op = "request", !.method = method, !.path = path,
                                !.body = body, !.endpoint = r.route.endpoint,
                                !.view = r.route.view, !.status = r.resp.status,
                                !.kind = r.resp.kind, !.url = r.resp.url,
                                !.session = r.session, !.before = db, !.query = query,
                                !.listing = IF "listing" \in DOMAIN r.resp
                                            THEN r.resp.listing ELSE NoListing,
                                !.navbar = IF "navbar" \in DOMAIN r.resp
                                           THEN r.resp.navbar ELSE <<>>]
    /\ UNCHANGED <<declared, admin_exists, session_maker, views, model_views, mounted, app_routes>>

Return ==
    /\ last.op # "none"
    /\ last' = Idle
    /\ UNCHANGED <<declared, admin_exists, session_maker, views, model_views, mounted, app_routes, db>>

Next ==
    \/ \E engine \in EngineKinds, sm \in SessionMakerKinds : NewAdmin(engine, sm)
    \/ \E view \in declared \cup {NotAClass} : add_view(view)
    \/ mount
    \/ \E model \in Models : \E row \in SeedRows(model) : Seed(model, row)
    \/ /\ mounted
       /\ last.op = "none"
       /\ \E method \in Methods, path \in RequestPaths :
             \E body \in BodiesFor(method, path) :
                Request(method, path, Missing, body)
    \/ Return

Spec == Init /\ [][Next]_vars

SpecFlags == InitFlags /\ [][Next]_vars

(***************************************************************************)
(* The list page of one model view under every value of the page query      *)
(* parameter and small page sizes.                                          *)
(***************************************************************************)
PageSizes == {1, 2, 10}

\* ?page=... as the client sends it; Missing when the URL has no page parameter
PageParams == {Missing, "", "abc", "1.5", "-1", "0", "1", "2", "+2", "3"}

PageSizeViews ==
    {[v EXCEPT !.page_size = page_size] : v \in {UserAdmin, ProductAdmin},
                                          page_size \in PageSizes}

InitList == declared \in {{v} : v \in PageSizeViews} /\ Fresh

NextList ==
    \/ \E engine \in EngineKinds, sm \in SessionMakerKinds : NewAdmin(engine, sm)
    \/ \E view \in declared : add_view(view)
    \/ mount
    \/ \E model \in Models : \E row \in SeedRows(model) : Seed(model, row)
    \/ /\ mounted
       /\ last.op = "none"
       /\ \E table \in Tables, query \in PageParams :
             Request("GET", <<"api", table, "">>, query, NoJson)
    \/ Return

SpecList == InitList /\ [][NextList]_vars

(***************************************************************************)
(* The navbar of the pages, for views that are visible and views that set   *)
(* is_visible = False.                                                      *)
(***************************************************************************)
HiddenProductAdmin == [ProductAdmin EXCEPT !.is_visible = FALSE]

HiddenView == [CustomView EXCEPT !.name = "Hidden", !.is_visible = FALSE]

\* plain views whose names have a blank, and a character that is no letter or digit
AuditLogsView == [CustomView EXCEPT !.name = "Audit Logs"]

MyView == [CustomView EXCEPT !.name = "My View!"]

NavbarViews == {UserAdmin, HiddenProductAdmin, CustomView, HiddenView, AuditLogsView, MyView}

InitNavbar == declared = NavbarViews /\ Fresh

\* requests that are answered with pages of every kind
NavbarPaths ==
    {<<"api", "">>, <<"api", "custom", "">>, <<"my-view!">>, <<"my-view", "">>}
    \cup UNION {{<<"api", g, "">>, <<"api", g, "create">>, <<"api", g, "1">>,
                 <<"api", g, "1", "edit">>} : g \in Tables}

NextNavbar ==
    \/ \E engine \in EngineKinds, sm \in SessionMakerKinds : NewAdmin(engine, sm)
    \/ \E view \in declared : add_view(view)
    \/ mount
    \/ \E model \in Models : \E row \in SeedRows(model) : Seed(model, row)
    \/ /\ mounted
       /\ last.op = "none"
       /\ \E method \in Methods, path \in NavbarPaths :
             \E body \in BodiesFor(method, path) :
                Request(method, path, Missing, body)
    \/ Return

SpecNavbar == InitNavbar /\ [][NextNavbar]_vars

(***************************************************************************)
(* The schema functions called on their own, as the unit tests call them.   *)
(***************************************************************************)
\* a name that is no column of a model
NoColumn == "nope"

\* the lists that name columns of the model, in the model's order, and NoColumn
ColumnLists(model) ==
    {SelectSeq(ColumnKeys(model) \o <<NoColumn>>, LAMBDA k : k \in S) :
        S \in SUBSET ({model.columns[i].key : i \in 1..Len(model.columns)} \cup {NoColumn})}

OptionalColumnLists(model) == {None} \cup {List(l) : l \in ColumnLists(model)}

\* the view classes over a model, by column_list and column_exclude_list
ColumnViews ==
    UNION {{[v EXCEPT !.column_list = cl, !.column_exclude_list = ce] :
                cl \in OptionalColumnLists(ModelOf(v)), ce \in ColumnLists(ModelOf(v))} :
            v \in {UserAdmin, ProductAdmin}}

Apply_sqlalchemy_to_pydantic(model, include_columns, exclude_columns, for_form) ==
    /\ last.op = "none"
    /\ last' = [Idle EXCEPT !.op = "sqlalchemy_to_pydantic", !.model = model.name,
                            !.include_columns = include_columns,
                            !.exclude_columns = exclude_columns, !.for_form = for_form,
                            !.result = sqlalchemy_to_pydantic(model, include_columns,
                                                              exclude_columns, for_form)]
    /\ UNCHANGED <<declared, admin_exists, session_maker, views, model_views, mounted,
                   app_routes, db>>

Reverse(seq) == [i \in 1..Len(seq) |-> seq[Len(seq) + 1 - i]]

\* the same view classes, and those whose column_list is not in the model's order
OrderedColumnViews ==
    ColumnViews \cup
    {[v EXCEPT !.column_list = List(Reverse(v.column_list.items))] : v \in ColumnViews}

Apply_get_columns(view) ==
    /\ last.op = "none"
    /\ last' = [Idle EXCEPT !.op = "_get_columns", !.view = view,
                            !.result = _get_columns(view)]
    /\ UNCHANGED <<declared, admin_exists, session_maker, views, model_views, mounted,
                   app_routes, db>>

Apply_get_form_model(view) ==
    /\ last.op = "none"
    /\ last' = [Idle EXCEPT !.op = "_get_form_model", !.view = view,
                            !.result = _get_form_model(view)]
    /\ UNCHANGED <<declared, admin_exists, session_maker, views, model_views, mounted,
                   app_routes, db>>

\* the column types handed to get_python_type: the mapped ones, sqlalchemy types
\* outside the map, deriving from a mapped type (Double, Unicode) or not
\* (LargeBinary, JSON), and a class that is no sqlalchemy type at all
SaTypes ==
    {SA_TYPE_MAP[i][1] : i \in 1..Len(SA_TYPE_MAP)}
        \cup {"Double", "Unicode", "LargeBinary", "JSON", "CustomType"}

Apply_get_python_type(sa_type) ==
    /\ last.op = "none"
    /\ last' = [Idle EXCEPT !.op = "get_python_type", !.sa_type = sa_type,
                            !.py_type = get_python_type(sa_type)]
    /\ UNCHANGED <<declared, admin_exists, session_maker, views, model_views, mounted,
                   app_routes, db>>

\* the names a class body declares: none, the empty default, a name
DeclaredNames == {Missing, "", "Users"}

\* the model= argument: left out, a model with a table name, a class without one
ModelArguments ==
    {NoModel} \cup {[name |-> m.name, tablename |-> m.tablename] : m \in Models}
             \cup {[name |-> "User", tablename |-> Missing]}

Apply_init_subclass(cls_name, own_name, model) ==
    /\ last.op = "none"
    /\ last' = [Idle EXCEPT !.op = "__init_subclass__", !.declared_name = own_name,
                            !.model_arg = model,
                            !.cls = BaseModelView__init_subclass__(
                                        ClassBody(cls_name, own_name), model)]
    /\ UNCHANGED <<declared, admin_exists, session_maker, views, model_views, mounted,
                   app_routes, db>>

\* Column(default=...): no default, scalar defaults (False and 0 among them), a callable
ColumnDefaults ==
    {<<"none", "None">>, <<"scalar", "True">>, <<"scalar", "False">>, <<"scalar", "0">>,
     <<"scalar", "pending">>, <<"callable", "now">>}

\* columns of every nullability and default
FieldColumns ==
    {Column("status", type, FALSE, nullable, dflt[1], dflt[2], FALSE) :
        type \in {"Boolean", "Integer", "String", "DateTime"}, nullable \in BOOLEAN,
        dflt \in ColumnDefaults}

\* one turn of the column loop of sqlalchemy_to_pydantic
Apply_Field(column) ==
    /\ last.op = "none"
    /\ last' = [Idle EXCEPT !.op = "Field", !.column = column, !.field = Field(column)]
    /\ UNCHANGED <<declared, admin_exists, session_maker, views, model_views, mounted,
                   app_routes, db>>

NextSchema ==
    \/ \E column \in FieldColumns : Apply_Field(column)
    \/ \E cls_name \in {"UserAdmin", "ProductAdmin"}, declared_name \in DeclaredNames,
          model \in ModelArguments : Apply_init_subclass(cls_name, declared_name, model)
    \/ \E sa_type \in SaTypes : Apply_get_python_type(sa_type)
    \/ /\ last.op = "none"
       /\ \E model \in Models :
             \E include_columns \in OptionalColumnLists(model),
                exclude_columns \in OptionalColumnLists(model), for_form \in BOOLEAN :
                   Apply_sqlalchemy_to_pydantic(model, include_columns, exclude_columns,
                                                for_form)
    \/ /\ last.op = "none"
       /\ \E view \in ColumnViews : Apply_get_form_model(view)
    \/ /\ last.op = "none"
       /\ \E view \in OrderedColumnViews : Apply_get_columns(view)
    \/ Return

SpecSchema == Init /\ [][NextSchema]_vars

(***************************************************************************)
(* Properties.                                                              *)
(***************************************************************************)
\* the routes of the mounted admin sub-application
MountedRoutes == app_routes[1].routes

\* the mounted routes whose endpoint is a method of the view
RoutesOf(view) ==
    {MountedRoutes[i] : i \in {j \in 1..Len(MountedRoutes) : MountedRoutes[j].view = view}}

RegisteredModelViews == {model_views[i] : i \in 1..Len(model_views)}

\* C1: every model view registers its list HTML and list API routes whatever its
\* flags, its create routes iff can_create, its detail routes iff
\* can_view_details, its edit routes iff can_edit and its delete API route iff
\* can_delete, and nothing else: each flag decides its own routes only.
C1_FlagsDecideRoutes ==
    mounted =>
        \A view \in RegisteredModelViews :
            {r.endpoint : r \in RoutesOf(view)} =
                {"_list_html", "_list_api"}
                \cup (IF view.can_create THEN {"_create_html", "_create_api"} ELSE {})
                \cup (IF view.can_view_details THEN {"_detail_html", "_detail_api"} ELSE {})
                \cup (IF view.can_edit THEN {"_edit_html", "_edit_api"} ELSE {})
                \cup (IF view.can_delete THEN {"_delete_api"} ELSE {})

\* a mounted model view with some flags set and others cleared
C1_Witness ==
    /\ mounted
    /\ \E view \in RegisteredModelViews :
          /\ view.can_create /\ ~view.can_view_details /\ view.can_edit /\ ~view.can_delete
          /\ \E r \in RoutesOf(view) : r.endpoint = "_edit_api"

\* the model views registered for a table
ViewsOn(t) == {view \in RegisteredModelViews : TableOf(view) = t}

\* every model view registered for the table has can_create, can_edit and can_delete false
ReadOnlyTable(t) ==
    \A view \in ViewsOn(t) : ~view.can_create /\ ~view.can_edit /\ ~view.can_delete

\* C2: when every model view registered for a table has can_create, can_edit and
\* can_delete all false, no request to the mounted admin (any path, GET or POST,
\* any body) adds, changes or removes a record of that table, and a GET of the
\* table's list API is answered 200 with the list page.
C2_ReadOnlyTableUnchanged ==
    (mounted /\ last.op = "request") =>
        \A t \in Tables :
            ReadOnlyTable(t) =>
                /\ db[t] = last.before[t]
                /\ (ViewsOn(t) # {} /\ last.method = "GET" /\ last.path = <<"api", t, "">>)
                        => (last.status = 200 /\ last.kind = "list")

\* a POST with a valid body to the create path of a read-only table that holds records
C2_Witness ==
    /\ mounted
    /\ last.op = "request"
    /\ ViewsOn("users") # {}
    /\ ReadOnlyTable("users")
    /\ db["users"] # NoRows
    /\ last.method = "POST"
    /\ last.path = <<"api", "users", "create">>
    /\ last.body.json
    /\ last.status = 405

Screens == {"list", "detail", "create", "edit", "delete"}

\* the names get_routes gives a screen's HTML shell route and its API route
HtmlRouteName(view, screen) == <<view.name, screen>>

ApiRouteName(view, screen) ==
    <<view.name, CASE screen = "list" -> "list_api"
                   [] screen = "detail" -> "detail_api"
                   [] screen = "create" -> "create_api"
                   [] screen = "edit" -> "edit_api"
                   [] screen = "delete" -> "delete_api">>

AllFlags(view) ==
    view.can_create /\ view.can_edit /\ view.can_delete /\ view.can_view_details

HasHtmlRoute(view, screen) ==
    \E r \in RoutesOf(view) :
        r.name = HtmlRouteName(view, screen) /\ r.endpoint \in HtmlEndpoints

HasApiRoute(view, screen) ==
    \E r \in RoutesOf(view) :
        r.name = ApiRouteName(view, screen) /\ r.endpoint \notin HtmlEndpoints

\* C3 as stated: a model view with all permission flags true has, for each of the
\* five screens (list, detail, create, edit, delete), an API route and an HTML
\* shell route of its own.
C3_EveryScreenHasBothRoutes ==
    mounted =>
        \A view \in RegisteredModelViews :
            AllFlags(view) =>
                \A screen \in Screens : HasApiRoute(view, screen) /\ HasHtmlRoute(view, screen)

\* C3 amended: a model view with all permission flags true has an API route and an
\* HTML shell route of its own for list, detail, create and edit; delete has an
\* API route that accepts POST only and no HTML route of its own: no route of the
\* view matches the path of a delete page, and a GET of it gets the catch-all.
C3_DeleteHasApiRouteOnly ==
    mounted =>
        \A view \in RegisteredModelViews :
            AllFlags(view) =>
                /\ \A screen \in Screens \ {"delete"} :
                        HasApiRoute(view, screen) /\ HasHtmlRoute(view, screen)
                /\ HasApiRoute(view, "delete")
                /\ \A r \in RoutesOf(view) :
                        /\ r.endpoint = "_delete_api" => r.methods = {"POST"}
                        /\ \A k \in PkSegs : ~PathMatches(r.path, <<TableOf(view), k, "delete">>)
                /\ (/\ last.op = "request"
                    /\ last.method = "GET"
                    /\ \E k \in PkSegs : last.path = <<TableOf(view), k, "delete">>)
                        => last.endpoint = "_catch_all_html"

\* a GET of the delete page of a view with all permission flags true
C3_Witness ==
    /\ mounted
    /\ \E view \in RegisteredModelViews :
          /\ AllFlags(view)
          /\ HasApiRoute(view, "delete")
          /\ last.op = "request"
          /\ last.method = "GET"
          /\ last.path = <<TableOf(view), "1", "delete">>
          /\ last.status = 200

\* C4: constructing BaseAdmin raises TypeError when neither engine nor
\* session_maker is given, when the engine is synchronous and no session_maker
\* is given, and when session_maker is a synchronous sessionmaker (whatever the
\* engine, an async one included); then no admin object exists and nothing is
\* mounted on the application.
C4_BadConfigRaisesTypeError ==
    (/\ last.op = "init"
     /\ \/ last.engine = "None" /\ last.sm = "None"
        \/ last.engine = "Engine" /\ last.sm = "None"
        \/ last.sm = "sessionmaker")
        => /\ last.raised = "TypeError"
           /\ ~admin_exists
           /\ ~mounted
           /\ app_routes = <<>>

\* a sync sessionmaker given together with an async engine
C4_Witness ==
    /\ last.op = "init"
    /\ last.engine = "AsyncEngine"
    /\ last.sm = "sessionmaker"
    /\ last.raised = "TypeError"
    /\ ~admin_exists

IndexPositions == {i \in 1..Len(views) : IsIndexView(views[i])}

\* C5: after any number of mount() calls the admin's views hold exactly one index
\* view, at position 0, the application has exactly one mounted admin
\* sub-application, and its route list is the one the first call built (from
\* the views and model views, which no call changes afterwards).
C5_OneIndexViewOneMount ==
    mounted =>
        /\ IndexPositions = {1}
        /\ Len(app_routes) = 1
        /\ MountedRoutes = _build_routes(views, model_views)

\* C5, the part that holds: a mount() call after the first changes nothing
C5_LaterMountChangesNothing ==
    [][(mounted /\ last'.op = "mount") =>
          UNCHANGED <<views, model_views, mounted, app_routes, db>>]_vars

\* the routes of a sequence, as a set
Range(routes) == {routes[i] : i \in 1..Len(routes)}

\* C6: add_view() after mount() raises RuntimeError and leaves the views, the
\* model views and the mounted routes as they were; add_view() before mount()
\* does not raise it; and every model view added before mount() has its routes
\* in the sub-application mount() builds, which no later call changes.
C6_AddViewAfterMountRaises ==
    [][/\ (last'.op = "add_view" /\ mounted) =>
            /\ last'.raised = "RuntimeError"
            /\ UNCHANGED <<views, model_views, mounted, app_routes>>
       /\ (last'.op = "add_view" /\ ~mounted) => last'.raised = "none"
       /\ (last'.op = "mount" /\ ~mounted) =>
            \A view \in RegisteredModelViews :
                Range(get_routes(view)) \subseteq Range(app_routes'[1].routes)
       /\ mounted => UNCHANGED <<model_views, app_routes>>]_vars

\* add_view of a model view refused after a mount that carries a model view's routes
C6_Witness ==
    /\ mounted
    /\ last.op = "add_view"
    /\ last.raised = "RuntimeError"
    /\ last.arg = UserAdmin
    /\ RegisteredModelViews = {ProductAdmin}
    /\ Range(get_routes(ProductAdmin)) \subseteq Range(MountedRoutes)

\* the index, model-view and plain-view routes of the mounted admin
ProperRoutes == {r \in Range(MountedRoutes) : r.endpoint # "_catch_all_html"}

CatchAllIsLast ==
    /\ MountedRoutes[Len(MountedRoutes)] = CatchAllRoute
    /\ \A i \in 1..(Len(MountedRoutes) - 1) : MountedRoutes[i].endpoint # "_catch_all_html"

ShellFromCatchAll ==
    last.endpoint = "_catch_all_html" /\ last.status = 200 /\ last.kind = "shell"

\* C7 as stated: the catch-all is the last route; a GET to a path that matches no
\* index, model-view or plain-view route gets the HTML shell with status 200,
\* and a GET to a path that matches such a route is never answered by the
\* catch-all.
C7_CatchAllOnlyForUnmatchedPaths ==
    (mounted /\ last.op = "request" /\ last.method = "GET") =>
        /\ CatchAllIsLast
        /\ (\A r \in ProperRoutes : ~PathMatches(r.path, last.path)) => ShellFromCatchAll
        /\ (\E r \in ProperRoutes : PathMatches(r.path, last.path))
                => last.endpoint # "_catch_all_html"

\* C7 amended: the catch-all is the last route; a GET to a path that no index,
\* model-view or plain-view route accepting GET matches gets the HTML shell with
\* status 200 from the catch-all (so does a GET of a delete API path, whose
\* route accepts POST only), and a GET to a path that such a route accepting GET
\* matches is never answered by the catch-all.
C7_CatchAllForPathsNoGetRouteMatches ==
    (mounted /\ last.op = "request" /\ last.method = "GET") =>
        /\ CatchAllIsLast
        /\ (\A r \in ProperRoutes : ~(PathMatches(r.path, last.path) /\ "GET" \in r.methods))
                => ShellFromCatchAll
        /\ (\E r \in ProperRoutes : PathMatches(r.path, last.path) /\ "GET" \in r.methods)
                => last.endpoint # "_catch_all_html"

\* a GET of a registered delete API path, answered by the catch-all
C7_Witness ==
    /\ mounted
    /\ last.op = "request"
    /\ last.method = "GET"
    /\ last.path = <<"api", "users", "1", "delete">>
    /\ \E r \in ProperRoutes : r.endpoint = "_delete_api" /\ PathMatches(r.path, last.path)
    /\ ShellFromCatchAll

\* the primary key a detail, edit or delete API path names
PkOf(path) == StrToInt(path[3])

\* the rows of the answering view's table when the request came in
RowsBefore == last.before[TableOf(last.view)]

\* C8: for a primary key that matches no stored record, the detail API (GET), the
\* edit API (GET, and POST with any body, valid or not) and the delete API (POST)
\* answer 404 and leave the stored records as they were.
C8_MissingRecordIs404 ==
    (/\ mounted
     /\ last.op = "request"
     /\ \/ last.endpoint = "_detail_api" /\ last.method = "GET"
        \/ last.endpoint = "_edit_api" /\ last.method \in {"GET", "POST"}
        \/ last.endpoint = "_delete_api" /\ last.method = "POST"
     /\ PkOf(last.path) \notin DOMAIN RowsBefore)
        => (last.status = 404 /\ db = last.before)

\* a POST of a valid body to the edit API of a key that is not stored, beside a stored one
C8_Witness ==
    /\ mounted
    /\ last.op = "request"
    /\ last.endpoint = "_edit_api"
    /\ last.method = "POST"
    /\ last.body.json
    /\ model_validate_ok(_get_form_model(last.view), last.body.obj)
    /\ RowsBefore # NoRows
    /\ PkOf(last.path) \notin DOMAIN RowsBefore
    /\ last.status = 404

\* the request is a POST that the create API of a model view answers, with a
\* JSON body that validates against the view's form schema
ValidCreatePost ==
    /\ mounted
    /\ last.op = "request"
    /\ last.endpoint = "_create_api"
    /\ last.method = "POST"
    /\ last.body.json
    /\ model_validate_ok(_get_form_model(last.view), last.body.obj)

\* the values the form schema hands to the model: what the body gives, else the default
ValidatedValues == model_dump(_get_form_model(last.view), last.body.obj)

\* the insert of the validated values meets the table's constraints
InsertAllowed ==
    ConstraintsHold(ModelOf(last.view), RowsBefore, NextPk(RowsBefore),
                    NewRow(ModelOf(last.view), ValidatedValues))

\* the keys stored in the answering view's table that were not there before
NewKeys == DOMAIN db[TableOf(last.view)] \ DOMAIN RowsBefore

\* C9: a POST to the create API whose body validates against the form schema and
\* violates no database constraint adds exactly one record, carrying the
\* validated values, leaves every existing record as it was, and answers 200
\* with a redirect to the detail URL of the new primary key; a GET of the detail
\* API for a stored key (the new one included, on the next request) answers 200.
C9_CreateAddsOneRecord ==
    /\ (ValidCreatePost /\ InsertAllowed) =>
            /\ Cardinality(NewKeys) = 1
            /\ \A pk \in NewKeys :
                  /\ \A k \in DOMAIN ValidatedValues :
                        db[TableOf(last.view)][pk][k] = ValidatedValues[k]
                  /\ last.url = BaseUrl \o <<TableOf(last.view), IntToStr(pk)>>
            /\ \A pk \in DOMAIN RowsBefore :
                  /\ pk \in DOMAIN db[TableOf(last.view)]
                  /\ db[TableOf(last.view)][pk] = RowsBefore[pk]
            /\ \A t \in Tables \ {TableOf(last.view)} : db[t] = last.before[t]
            /\ last.status = 200
            /\ last.kind = "redirect"
    /\ (/\ mounted
        /\ last.op = "request"
        /\ last.method = "GET"
        /\ \E t \in Tables : \E pk \in DOMAIN db[t] : last.path = <<"api", t, IntToStr(pk)>>)
            => last.status = 200

\* a second record created beside an existing one
C9_Witness ==
    /\ ValidCreatePost
    /\ InsertAllowed
    /\ RowsBefore # NoRows
    /\ last.status = 200
    /\ last.url = BaseUrl \o <<"users", "2">>
    /\ 2 \in DOMAIN db["users"]

\* C10: a create POST whose insert violates a database constraint (a duplicate
\* value in a unique column, a missing value in a NOT NULL column) answers 400
\* with an error page, the session is rolled back, and the stored records are
\* the same as before the request.
C10_FailedCreateRollsBack ==
    (ValidCreatePost /\ ~InsertAllowed) =>
        /\ last.status = 400
        /\ last.kind = "error"
        /\ last.session = "rolled_back"
        /\ db = last.before

\* a create POST that repeats the username of a stored user
C10_Witness ==
    /\ ValidCreatePost
    /\ ~InsertAllowed
    /\ last.view = UserAdmin
    /\ \E pk \in DOMAIN RowsBefore : RowsBefore[pk]["username"] = ValidatedValues["username"]
    /\ last.status = 400

\* the request is a POST that the delete API answers, for a stored key
DeletePostOfStoredKey ==
    /\ mounted
    /\ last.op = "request"
    /\ last.endpoint = "_delete_api"
    /\ last.method = "POST"
    /\ PkOf(last.path) \in DOMAIN RowsBefore

ValidEditPost ==
    /\ mounted
    /\ last.op = "request"
    /\ last.endpoint = "_edit_api"
    /\ last.method = "POST"
    /\ PkOf(last.path) \in DOMAIN RowsBefore
    /\ last.body.json
    /\ model_validate_ok(_get_form_model(last.view), last.body.obj)

\* the record with the validated values set meets the table's constraints
UpdateAllowed ==
    ConstraintsHold(ModelOf(last.view), RowsBefore, PkOf(last.path),
                    UpdatedRow(ModelOf(last.view), RowsBefore[PkOf(last.path)],
                               ValidatedValues))

FieldNames(schema) == {schema[i].name : i \in 1..Len(schema)}

\* C13: whatever the column_list and column_exclude_list of a model view, the form
\* schema of its create and edit screens has no field for the model's primary
\* key column.
C13_FormSchemaExcludesPk ==
    last.op = "_get_form_model" =>
        _get_pk_name(ModelOf(last.view)) \notin FieldNames(last.result)

\* C13, the part that holds: the form schema has no primary key field when the
\* view's columns name a column other than the primary key
C13_FormSchemaExcludesPkGivenOtherColumn ==
    (/\ last.op = "_get_form_model"
     /\ \E i \in 1..Len(_get_columns(last.view)) :
            _get_columns(last.view)[i] # _get_pk_name(ModelOf(last.view)))
        => _get_pk_name(ModelOf(last.view)) \notin FieldNames(last.result)

\* the model a schema call was made for
CalledModel == CHOOSE m \in Models : m.name = last.model

AllColumnNames(model) == {model.columns[i].key : i \in 1..Len(model.columns)}

\* the names in an optional list
Named(x) == {x.items[i] : i \in 1..Len(x.items)}

\* sqlalchemy_to_pydantic(model, include_columns=...) with the other arguments left out
IncludeOnlyCall ==
    /\ last.op = "sqlalchemy_to_pydantic"
    /\ last.exclude_columns = None
    /\ ~last.for_form

\* C14: sqlalchemy_to_pydantic with include_columns None returns a schema with all
\* columns of the model, and with any list as include_columns a schema whose
\* fields are exactly the model's columns named in the list.
C14_IncludeColumnsSelectsFields ==
    IncludeOnlyCall =>
        FieldNames(last.result) =
            IF last.include_columns.is_none THEN AllColumnNames(CalledModel)
            ELSE AllColumnNames(CalledModel) \cap Named(last.include_columns)

\* C14, the part that holds: the same for None and for every list that is not empty
C14_NonEmptyIncludeColumnsSelectsFields ==
    (IncludeOnlyCall /\ (last.include_columns.is_none \/ last.include_columns.items # <<>>)) =>
        FieldNames(last.result) =
            IF last.include_columns.is_none THEN AllColumnNames(CalledModel)
            ELSE AllColumnNames(CalledModel) \cap Named(last.include_columns)

\* C15: sqlalchemy_to_pydantic never returns a field named in exclude_columns,
\* also when the same name is in include_columns, and with for_form true never
\* returns the primary key column, also when include_columns names it.
C15_ExcludedAndKeyNeverReturned ==
    last.op = "sqlalchemy_to_pydantic" =>
        /\ FieldNames(last.result) \cap Named(last.exclude_columns) = {}
        /\ last.for_form => _get_pk_name(CalledModel) \notin FieldNames(last.result)

\* a form call whose include_columns names the key and a column that is also excluded
C15_Witness ==
    /\ last.op = "sqlalchemy_to_pydantic"
    /\ last.for_form
    /\ _get_pk_name(CalledModel) \in Named(last.include_columns)
    /\ Named(last.include_columns) \cap Named(last.exclude_columns)
           \cap AllColumnNames(CalledModel) # {}
    /\ last.result # <<>>

\* the types SA_TYPE_MAP has an entry for
MappedTypes == {SA_TYPE_MAP[i][1] : i \in 1..Len(SA_TYPE_MAP)}

\* the python type the claim gives each mapped type
OwnPythonType(type) ==
    CASE type \in {"Integer", "BigInteger", "SmallInteger"} -> "int"
      [] type = "Float" -> "float"
      [] type = "Numeric" -> "Decimal"
      [] type \in {"String", "Text"} -> "str"
      [] type = "Boolean" -> "bool"
      [] type = "DateTime" -> "datetime"
      [] type = "Date" -> "date"
      [] type = "Time" -> "time"

\* the closest mapped type a type is or derives from; "object" when there is none
RECURSIVE NearestMapped(_)
NearestMapped(type) ==
    IF type \in MappedTypes \/ type = "object" THEN type ELSE NearestMapped(SaBase(type))

\* C16: get_python_type maps each type of SA_TYPE_MAP to its own python type,
\* also a type that derives from another mapped type, and every other type to str.
C16_EveryOtherTypeIsStr ==
    last.op = "get_python_type" =>
        last.py_type = IF last.sa_type \in MappedTypes THEN OwnPythonType(last.sa_type)
                       ELSE "str"

\* C16 as the code has it: each mapped type gets its own python type, a type
\* outside the map that derives from a mapped type gets the python type of the
\* closest mapped type it derives from, and only a type deriving from no mapped
\* type gets str.
C16_MappedAncestorDecides ==
    last.op = "get_python_type" =>
        last.py_type = IF NearestMapped(last.sa_type) = "object" THEN "str"
                       ELSE OwnPythonType(NearestMapped(last.sa_type))

\* Float, which derives from the mapped Numeric, was looked up
C16_Witness ==
    /\ last.op = "get_python_type"
    /\ last.sa_type = "Float"
    /\ IsInstance(last.sa_type, "Numeric")
    /\ last.py_type = "float"

\* C17: a BaseModelView subclass declared with model=M and without a name gets
\* the title-cased table name of M (M's class name when M has no table name) as
\* its name; a subclass that declares a name keeps the declared name.
C17_DefaultNameIsTitledTableName ==
    (last.op = "__init_subclass__" /\ last.model_arg # NoModel) =>
        /\ last.declared_name = Missing => last.cls.name = Title(TableNameOr(last.model_arg))
        /\ last.declared_name \notin {Missing, ""} => last.cls.name = last.declared_name

\* C17, what the code does: without a declared name the name is the view class's
\* own name; a declared name that is not empty is kept
C17_DefaultNameIsClassName ==
    (last.op = "__init_subclass__" /\ last.model_arg # NoModel) =>
        /\ last.declared_name \in {Missing, ""} => last.cls.name = last.cls.cls_name
        /\ last.declared_name \notin {Missing, ""} => last.cls.name = last.declared_name

\* a GET that the list API of a model view answered
ListGet ==
    /\ last.op = "request"
    /\ last.method = "GET"
    /\ last.endpoint = "_list_api"

\* page values that are missing, not a number, zero or negative
PageOneParams == {Missing, "", "abc", "1.5", "-1", "0"}

\* C18: the list API answers 200 for any value of the page parameter; a missing,
\* non-numeric, zero or negative value is treated as page 1, so the page is at
\* least 1, the offset (page - 1) * page_size is never negative, at most page_size
\* records are returned and the total is the count of all records of the model.
C18_AnyPageIsServed ==
    ListGet =>
        /\ last.status = 200
        /\ last.kind = "list"
        /\ last.query \in PageOneParams => last.listing.page = 1
        /\ last.query \in {"1", "2", "3"} => last.listing.page = StrToInt(last.query)
        /\ last.listing.page >= 1
        /\ last.listing.page_size = last.view.page_size
        /\ last.listing.offset = (last.listing.page - 1) * last.view.page_size
        /\ last.listing.offset >= 0
        /\ Len(last.listing.items) <= last.view.page_size
        /\ last.listing.total = Cardinality(DOMAIN RowsBefore)
        /\ \A i \in 1..Len(last.listing.items) : last.listing.items[i] \in DOMAIN RowsBefore

\* page 0 asked of a table of two records with page size 1: one record comes back
C18_Witness ==
    /\ ListGet
    /\ last.query = "0"
    /\ last.view.page_size = 1
    /\ last.listing.total = 2
    /\ Len(last.listing.items) = 1

\* a page rendered through the layout was returned
LayoutPage == last.op = "request" /\ last.kind \in LayoutKinds

\* the positions in admin.views of the views that are visible
VisiblePositions == {i \in 1..Len(views) : views[i].is_visible}

\* the position in admin.views of the j-th visible view
VisiblePosition(j) ==
    CHOOSE i \in VisiblePositions : Cardinality({k \in VisiblePositions : k < i}) = j - 1

\* C19: every page rendered through the layout carries a navbar with exactly
\* one link per registered view whose is_visible is true, in registration order
\* with the index view first once mounted, and none for a view whose is_visible
\* is false; a visible plain view added before mount() is among the links of the
\* index API response.
C19_NavbarLinksVisibleViews ==
    LayoutPage =>
        /\ Len(last.navbar) = Cardinality(VisiblePositions)
        /\ \A j \in 1..Len(last.navbar) :
              /\ last.navbar[j].text = views[VisiblePosition(j)].name
              /\ last.navbar[j].url = get_relative_url(get_url(views[VisiblePosition(j)]))
        /\ IsIndexView(views[1]) /\ last.navbar[1].text = views[1].name
        /\ (last.endpoint = "_index_api" /\ last.method = "GET") =>
              \A i \in 1..Len(views) :
                  (views[i].kind = "plain" /\ views[i].is_visible) =>
                      \E j \in 1..Len(last.navbar) : last.navbar[j].text = views[i].name

\* the index API answered for an admin with a hidden view registered before a
\* visible plain view
C19_Witness ==
    /\ LayoutPage
    /\ last.endpoint = "_index_api"
    /\ last.method = "GET"
    /\ Len(views) = 3
    /\ ~views[2].is_visible
    /\ views[3] = CustomView
    /\ Len(last.navbar) = 2

\* the form fields of the view a request went to
FormFields == {_get_form_model(last.view)[i] : i \in 1..Len(_get_form_model(last.view))}

MissingRequired == \E f \in FormFields : f.required /\ ~Given(last.body.obj, f.name)

WrongType ==
    \E f \in FormFields :
        Given(last.body.obj, f.name) /\ ~ValueFits(f.py_type, last.body.obj[f.name])

\* a create POST, or an edit POST for a stored record, with a JSON body that the
\* form schema rejects
InvalidPost ==
    /\ mounted
    /\ last.op = "request"
    /\ last.method = "POST"
    /\ \/ last.endpoint = "_create_api"
       \/ last.endpoint = "_edit_api" /\ PkOf(last.path) \in DOMAIN RowsBefore
    /\ last.body.json
    /\ MissingRequired \/ WrongType

\* C20: a create POST or an edit POST for an existing record whose body fails
\* validation against the form schema returns status 400 with an error page,
\* attempts no database write, and changes no stored record.
C20_InvalidBodyIs400 ==
    InvalidPost =>
        /\ last.status = 400
        /\ last.kind = "error"
        /\ last.session \in {"none", "read"}
        /\ db = last.before

\* an edit of a stored record with a value of the wrong type, two records stored
C20_Witness ==
    /\ InvalidPost
    /\ last.endpoint = "_edit_api"
    /\ WrongType
    /\ Cardinality(DOMAIN RowsBefore) = 2
    /\ last.status = 400

\* a create with a required field missing
C20_WitnessCreate ==
    /\ InvalidPost
    /\ last.endpoint = "_create_api"
    /\ MissingRequired
    /\ last.status = 400

\* C21: in a generated schema a column with a scalar default is an optional field
\* with that default (also when the default is False or 0), a nullable column
\* without a scalar default is an optional field with default None, and a
\* non-nullable column without a scalar default, a callable default included, is
\* a required field.
C21_DefaultsAndRequiredFields ==
    last.op = "Field" =>
        /\ last.column.default_kind = "scalar" =>
              ~last.field.required /\ last.field.default = last.column.default
        /\ (last.column.default_kind # "scalar" /\ last.column.nullable) =>
              ~last.field.required /\ last.field.default = "None"
        /\ (last.column.default_kind # "scalar" /\ ~last.column.nullable) =>
              last.field.required

\* a non-nullable column with the scalar default False became an optional field
C21_Witness ==
    /\ last.op = "Field"
    /\ last.column.default_kind = "scalar"
    /\ last.column.default = "False"
    /\ ~last.column.nullable
    /\ ~last.field.required

\* the positions of a sequence whose element is in a set
KeptPositions(seq, S) == {i \in 1..Len(seq) : seq[i] \in S}

\* the elements of a sequence that are in a set, in the order of the sequence
Kept(seq, S) ==
    [j \in 1..Cardinality(KeptPositions(seq, S)) |->
        seq[CHOOSE i \in KeptPositions(seq, S) :
                Cardinality({k \in KeptPositions(seq, S) : k < i}) = j - 1]]

\* C22: the columns of a model view are, when column_list is non-empty, the names
\* of column_list that are columns of the model, in column_list order, with
\* column_exclude_list ignored; when column_list is None or empty, all model
\* columns not in column_exclude_list, in model order; and always only columns of
\* the model.
C22_ColumnsOfAView ==
    last.op = "_get_columns" =>
        LET model == ModelOf(last.view)
            a == AllColumnNames(model)
            excluded == {last.view.column_exclude_list[i] :
                            i \in 1..Len(last.view.column_exclude_list)}
        IN  /\ (~last.view.column_list.is_none /\ last.view.column_list.items # <<>>) =>
                  last.result = Kept(last.view.column_list.items, a)
            /\ (last.view.column_list.is_none \/ last.view.column_list.items = <<>>) =>
                  last.result = Kept(ColumnKeys(model), a \ excluded)
            /\ \A i \in 1..Len(last.result) : last.result[i] \in a

\* a column_list out of model order, with an unknown name and an excluded column
C22_Witness ==
    /\ last.op = "_get_columns"
    /\ ~last.view.column_list.is_none
    /\ Len(last.view.column_list.items) >= 3
    /\ last.view.column_list.items[1] = NoColumn
    /\ last.view.column_list.items[Len(last.view.column_list.items)] = "id"
    /\ \E i \in 1..Len(last.view.column_exclude_list) :
           last.view.column_exclude_list[i] = "id"
    /\ Len(last.result) = Len(last.view.column_list.items) - 1
    /\ last.result[Len(last.result)] = "id"

\* no column_list at all and a column excluded
C22_WitnessNone ==
    /\ last.op = "_get_columns"
    /\ last.view.column_list.is_none
    /\ last.view.column_exclude_list # <<>>
    /\ Len(last.result) < Len(ColumnKeys(ModelOf(last.view)))

\* the API endpoints of the model views
ModelApiEndpoints == {"_list_api", "_detail_api", "_create_api", "_edit_api", "_delete_api"}

\* C23: every successfully constructed BaseAdmin has a session maker that is not
\* None, so after any sequence of add_view, mount and requests no model-view
\* endpoint raises the "No session maker configured" RuntimeError.
C23_SessionMakerIsConfigured ==
    /\ admin_exists => session_maker # "None"
    /\ (last.op = "init" /\ last.raised = "none") => session_maker # "None"
    /\ last.op = "request" => last.kind # "no_session_maker"

\* an admin made from an async engine alone served a model view's list from a session
C23_Witness ==
    /\ admin_exists
    /\ session_maker = "async_sessionmaker"
    /\ last.op = "request"
    /\ last.endpoint \in ModelApiEndpoints
    /\ last.session = "read"
    /\ last.status = 200

\* a GET that the index API answered
IndexApiGet == last.op = "request" /\ last.method = "GET" /\ last.endpoint = "_index_api"

\* C24: after any sequence of add_view() and mount() calls the model views are
\* exactly the model-view instances among the views, in the same order; before
\* mount() the views contain no index view, and once mounted the first view is
\* the index view, so the index API renders the index view and never a model
\* view or a plain view.
C24_ModelViewsAndIndexView ==
    /\ model_views = SelectSeq(views, IsModelView)
    /\ ~mounted => IndexPositions = {}
    /\ mounted => views # <<>> /\ IsIndexView(views[1])
    /\ IndexApiGet => last.kind = "dashboard"

\* C24, the part that holds: the same without the statement about the views
\* before mount()
C24_ModelViewsAndIndexViewOnceMounted ==
    /\ model_views = SelectSeq(views, IsModelView)
    /\ mounted => views # <<>> /\ IsIndexView(views[1])
    /\ IndexApiGet => last.kind = "dashboard"

\* the positions of the routes of the views and the index: all but the catch-all
ProperPositions == {i \in 1..Len(MountedRoutes) : MountedRoutes[i] # CatchAllRoute}

\* two routes accept the same request
Collide(r1, r2) ==
    \E method \in Methods, path \in RequestPaths :
        RouteMatch(r1, method, path) = "FULL" /\ RouteMatch(r2, method, path) = "FULL"

\* some request is answered by the route at position i
Reachable(i) ==
    \E method \in Methods, path \in RequestPaths :
        /\ RouteMatch(MountedRoutes[i], method, path) = "FULL"
        /\ \A j \in 1..(i - 1) : RouteMatch(MountedRoutes[j], method, path) # "FULL"

\* mount() has just built the routes
JustMounted == mounted /\ last.op = "mount"

\* C25: for any views added before mount() no registered route is shadowed: no
\* two routes built by _build_routes for the index, the model views and the
\* plain views accept the same path and method, so every view's endpoint is
\* reachable, also for two model views of the same table.
C25_NoRouteIsShadowed ==
    JustMounted =>
        /\ \A i \in ProperPositions, j \in ProperPositions :
              i < j => ~Collide(MountedRoutes[i], MountedRoutes[j])
        /\ \A i \in ProperPositions : Reachable(i)

\* the base paths the views' routes are registered under
BasePaths ==
    [i \in 1..Len(views) |->
        IF IsModelView(views[i]) THEN TableOf(views[i])
        ELSE IF IsIndexView(views[i]) THEN ""
        ELSE slugify(views[i].name)]

\* C25, the part that holds: when the model views have tables of their own and
\* the plain views slugs of their own, other than "api" and the empty slug, no
\* route is shadowed
C25_NoRouteIsShadowedGivenDistinctBases ==
    (/\ JustMounted
     /\ \A i \in 2..Len(views), j \in 2..Len(views) :
            (i < j /\ ~IsIndexView(views[i]) /\ ~IsIndexView(views[j])) =>
                BasePaths[i] # BasePaths[j]
     /\ \A i \in 2..Len(views) : IsIndexView(views[i]) \/ BasePaths[i] \notin {"api", ""})
        => /\ \A i \in ProperPositions, j \in ProperPositions :
                 i < j => ~Collide(MountedRoutes[i], MountedRoutes[j])
           /\ \A i \in ProperPositions : Reachable(i)

\* the HTML routes registered for a plain view
HtmlRoutesOf(view) ==
    {MountedRoutes[i].path :
        i \in {k \in 1..Len(MountedRoutes) :
                 MountedRoutes[k].view = view /\ MountedRoutes[k].endpoint = "view_html"}}

\* a URL is the path of a route of the set, up to a trailing slash
IsRoutePath(url, paths) == url \in paths \/ url \o <<"">> \in paths

\* C26: for every plain BaseView, whatever its name, the URL get_url() returns
\* and the navbar links to (base_url stripped) is the path of the HTML route
\* _build_routes registers for the view, up to a trailing slash.
C26_PlainViewUrlIsItsRoute ==
    LayoutPage =>
        /\ \A i \in 1..Len(views) :
              views[i].kind = "plain" =>
                  IsRoutePath(get_relative_url(get_url(views[i])), HtmlRoutesOf(views[i]))
        /\ \A j \in 1..Len(last.navbar) :
              views[VisiblePosition(j)].kind = "plain" =>
                  IsRoutePath(last.navbar[j].url, HtmlRoutesOf(views[VisiblePosition(j)]))

\* C26, the part that holds: the same for the plain views whose name has only
\* letters, digits and single blanks inside
C26_PlainViewUrlIsItsRouteForPlainNames ==
    LayoutPage =>
        /\ \A i \in 1..Len(views) :
              (views[i].kind = "plain" /\ views[i].name \in {"Custom", "Hidden", "Audit Logs"}) =>
                  IsRoutePath(get_relative_url(get_url(views[i])), HtmlRoutesOf(views[i]))
        /\ \A j \in 1..Len(last.navbar) :
              (/\ views[VisiblePosition(j)].kind = "plain"
               /\ views[VisiblePosition(j)].name \in {"Custom", "Hidden", "Audit Logs"}) =>
                  IsRoutePath(last.navbar[j].url, HtmlRoutesOf(views[VisiblePosition(j)]))

\* a successful create, edit or delete: the API answers with a redirect event
RedirectAfterWrite ==
    /\ mounted
    /\ last.op = "request"
    /\ last.method = "POST"
    /\ last.endpoint \in {"_create_api", "_edit_api", "_delete_api"}
    /\ last.kind = "redirect"

\* the page the redirect is meant for
RedirectTarget == IF last.endpoint = "_delete_api" THEN "_list_html" ELSE "_detail_html"

\* the routes of the view of the request that serve a GET of the redirect's URL
RedirectRoutes ==
    {i \in 1..Len(MountedRoutes) :
        /\ MountedRoutes[i].view = last.view
        /\ MountedRoutes[i].endpoint = RedirectTarget
        /\ RouteMatch(MountedRoutes[i], "GET", get_relative_url(last.url)) = "FULL"}

\* C27: every redirect event a model view returns after a successful create,
\* edit or delete targets a page whose route is registered for that view under
\* its permission flags: the detail page after create and edit, the list page
\* after delete, for every combination of can_create, can_edit, can_delete and
\* can_view_details.
C27_RedirectTargetIsRegistered ==
    RedirectAfterWrite => RedirectRoutes # {}

\* C27, the part that holds: the redirect after a delete always has its list
\* route, and the redirect after a create or an edit has its detail route when
\* the view has can_view_details
C27_RedirectTargetIsRegisteredWithDetails ==
    (RedirectAfterWrite /\ (last.endpoint = "_delete_api" \/ last.view.can_view_details))
        => RedirectRoutes # {}

\* a create on a view without detail page: the redirect's URL is served by the catch-all
C27_RedirectToCatchAll ==
    /\ RedirectAfterWrite
    /\ last.endpoint = "_create_api"
    /\ ~last.view.can_view_details
    /\ \A i \in 1..Len(MountedRoutes) :
          RouteMatch(MountedRoutes[i], "GET", get_relative_url(last.url)) = "FULL"
              => MountedRoutes[i].endpoint = "_catch_all_html"

====
